---------------------------- MODULE Spec2Model ----------------------------
(***************************************************************************)
(* A model of advanced_music_generator.py: the chord progression           *)
(* generator with its class-level template table, and the phases of       *)
(* AdvancedMusicGenerator.generate_composition.                            *)
(*                                                                         *)
(* Time is counted in ticks of 1/TicksPerSecond seconds, fine enough to    *)
(* hold every rhythm entry the code can produce (0.125 * 0.75 = 3/32) and  *)
(* durations below one sample period.                                      *)
(***************************************************************************)
EXTENDS Integers, Sequences, FiniteSets, TLC

VARIABLES
    PROGRESSIONS,   \* ChordProgressionGenerator.PROGRESSIONS (class attribute)
    gp,             \* gp[c]: the frame of caller c's generate_progression call
    ncalls,         \* generate_progression calls started so far
    \* one generate_composition call (its arguments and local variables)
    pc,             \* the phase about to run, or "Idle", "Done", "Raised"
    args,           \* description, duration, style, and self.sample_rate
    err,            \* the exception that ended the call ("" for none)
    raised_in,      \* the phase that raised it
    entry,          \* PROGRESSIONS as it was when the call began
    drew,           \* whether the call has drawn from the PRNG
    duration,       \* `duration` after validation
    style,          \* `style` after analysis
    scale_name,
    time_sig,
    rhythm_pattern,
    extended_pattern,
    melody,         \* the notes: duration and start_time (ticks)
    progression,
    allocated,      \* whether np.zeros(total_samples) has run
    composition,    \* the buffer: per sample, how many renders were mixed in
    scaled,         \* whether Normalize rescaled the buffer
    rp,             \* the generate_rhythm_pattern call under test
    ml,             \* the generate_melody call under test
    lib             \* the last direct call of a function without state

progVars == <<gp, ncalls>>

libVars == <<rp, ml, lib>>

compVars == <<pc, args, err, raised_in, entry, drew, duration, style,
              scale_name, time_sig, rhythm_pattern, extended_pattern, melody,
              progression, allocated, composition, scaled>>

vars == <<PROGRESSIONS, gp, ncalls, pc, args, err, raised_in, entry, drew,
          duration, style, scale_name, time_sig, rhythm_pattern,
          extended_pattern, melody, progression, allocated, composition,
          scaled, rp, ml, lib>>

-----------------------------------------------------------------------------
(* Bounds of the model *)

MaxCalls == 2       \* direct generate_progression calls per behaviour
MaxLen == 6
NegLens == 1        \* how many negative length arguments are tried
MaxRunSeconds == 10 \* longest clamped duration followed past Analyze
MaxCycle == 2       \* longest cycle of rhythm draws a PRNG stream repeats
MaxScale == 3       \* longest scale given to generate_melody
MaxNotes == 3       \* longest rhythm given to generate_melody
MaxOctaves == 3     \* most octaves asked of get_scale_frequencies
MaxInversion == 5   \* highest inversion asked of create_chord
MaxBuffer == 3      \* longest buffer given to add_effects directly

\* Ticks per second: every rhythm entry (down to 0.125 * 0.75 s) and every
\* duration tried is a whole number of ticks.
TicksPerSecond == 64

-----------------------------------------------------------------------------
(* Python helpers *)

Min(a, b) == IF a < b THEN a ELSE b
Max(a, b) == IF a > b THEN a ELSE b

\* s[:n] with Python's slice semantics: a negative n counts from the end.
PySliceToAll(s, n) == s
PySliceTo(s, n) ==
    IF n >= 0 THEN SubSeq(s, 1, Min(n, Len(s)))
    ELSE SubSeq(s, 1, Max(Len(s) + n, 0))

\* s[-2:]: the last two elements (all of s when it is shorter).
PyLastTwo(s) == SubSeq(s, Max(1, Len(s) - 1), Len(s))

-----------------------------------------------------------------------------
(* ChordProgressionGenerator *)

InitialPROGRESSIONS ==
    [ classical |-> << <<0, 3, 4, 0>>, <<0, 5, 3, 4, 0>>, <<0, 4, 5, 0>>,
                       <<0, 2, 3, 4, 0>> >>,
      jazz      |-> << <<0, 5, 1, 4>>, <<0, 0, 3, 3, 5, 5, 1, 4>>,
                       <<0, 6, 1, 4>>, <<0, 2, 5, 1, 4, 0>> >>,
      pop       |-> << <<0, 5, 3, 4>>, <<5, 3, 0, 4>>, <<0, 4, 5, 3>>,
                       <<3, 4, 0, 5>> >>,
      folk      |-> << <<0, 4, 0, 4>>, <<0, 3, 4, 0>>, <<0, 5, 4, 0>> >> ]

\* random.choice([0, 3, 4, 5])
CommonChordsOctave == {0, 3, 4, 7}
CommonChords == {0, 3, 4, 5}

\* One pass of the extension loop draws random.random() and, when it is not
\* below 0.7, random.choice(CommonChords).  rep: random.random() < 0.7.
ExtensionDraws ==
    {[rep |-> TRUE, pick |-> 0]} \cup {[rep |-> FALSE, pick |-> v] : v \in CommonChords}

\* if style not in PROGRESSIONS: style = 'classical'
EffectiveStyle(table, name) ==
    IF name \in DOMAIN table THEN name ELSE "classical"

\* The body of `while len(progression) < length`, on the list itself.
ExtendOnce(prog, draw) ==
    IF draw.rep THEN prog \o PyLastTwo(prog)
    ELSE Append(prog, draw.pick)

-----------------------------------------------------------------------------
(* Arguments of generate_composition *)

\* A duration argument: a finite number of ticks ("num": an int or a float),
\* float('nan'), or an object that is neither int nor float ("other").
Num(ticks) == [kind |-> "num", ticks |-> ticks]
NaN == [kind |-> "nan", ticks |-> 0]
NotANumber == [kind |-> "other", ticks |-> 0]
NoDuration == Num(0)

\* A description argument: None, a str, or another object; `text` is the set
\* of the analysis keywords that occur in str(description).lower(), `blank`
\* whether str(description).strip() is empty.
Desc(kind, blank, text) == [kind |-> kind, blank |-> blank, text |-> text]

NoArgs ==
    [description |-> Desc("none", TRUE, {}), duration |-> NoDuration,
     style |-> "None", sample_rate |-> 0]

\* The style and length arguments tried: the two styles generate_composition
\* passes, and "ambient", which is no key of the table.
StyleArgs == {"classical", "jazz", "ambient"}
Lengths == (0 - NegLens) .. MaxLen

IdleFrame ==
    [pc |-> "idle", arg |-> "", style |-> "", idx |-> 0, length |-> 0,
     draws |-> <<>>, start |-> <<>>, result |-> <<>>]

\* The list object the local name `progression` is bound to: random.choice
\* returns the chosen element of the table itself, not a copy.
Progression(c) == PROGRESSIONS[gp[c].style][gp[c].idx]

\* generate_progression, lines 113-117: fallback, then random.choice.
GP_Call(c) ==
    /\ gp[c].pc \in {"idle", "done"}
    /\ ncalls < MaxCalls
    /\ \E name \in StyleArgs, length \in Lengths :
         LET s == EffectiveStyle(PROGRESSIONS, name) IN
         \E idx \in 1 .. Len(PROGRESSIONS[s]) :
            gp' = [gp EXCEPT ![c] =
                      [pc |-> "loop", arg |-> name, style |-> s, idx |-> idx,
                       length |-> length, draws |-> <<>>,
                       start |-> PROGRESSIONS[s][idx], result |-> <<>>]]
    /\ ncalls' = ncalls + 1
    /\ UNCHANGED <<PROGRESSIONS, compVars, libVars>>

\* One pass of the while loop, lines 120-125: extend and append act on the
\* chosen list in place.
GP_Extend(c) ==
    /\ gp[c].pc = "loop"
    /\ Len(Progression(c)) < gp[c].length
    /\ \E d \in ExtensionDraws :
         /\ PROGRESSIONS' =
               [PROGRESSIONS EXCEPT ![gp[c].style][gp[c].idx] = ExtendOnce(@, d)]
         /\ gp' = [gp EXCEPT ![c].draws = Append(@, d)]
    /\ UNCHANGED <<ncalls, compVars, libVars>>

\* Loop exit and line 127: return progression[:length] (a new list).
GP_Return(c) ==
    /\ gp[c].pc = "loop"
    /\ Len(Progression(c)) >= gp[c].length
    /\ gp' = [gp EXCEPT ![c].pc = "done",
                        ![c].result = PySliceTo(Progression(c), gp[c].length)]
    /\ UNCHANGED <<PROGRESSIONS, ncalls, compVars, libVars>>

Callers == {1, 2}

-----------------------------------------------------------------------------
(* generate_composition: Analyze (input validation and description analysis) *)

MusicStyles ==
    {"classical", "jazz", "electronic", "ambient", "rock", "folk", "world",
     "experimental"}

Seconds(n) == n * TicksPerSecond

\* `duration = 1.0` for a duration <= 0, and the limit of 600 seconds.
DefaultDuration == 1
MaxDuration == 600

\* isinstance(duration, (int, float))
IsNumber(d) == d.kind \in {"num", "nan"}

\* Lines 402-405.  Both comparisons are false for float('nan').
ClampDurationStrict(d) ==
    IF d.kind = "num" /\ d.ticks < 0 THEN Num(Seconds(DefaultDuration))
    ELSE IF d.kind = "num" /\ d.ticks > Seconds(MaxDuration)
         THEN Num(Seconds(MaxDuration))
         ELSE d
ClampDuration(d) ==
    IF d.kind = "num" /\ d.ticks <= 0 THEN Num(Seconds(DefaultDuration))
    ELSE IF d.kind = "num" /\ d.ticks > Seconds(MaxDuration)
         THEN Num(Seconds(MaxDuration))
         ELSE d

\* Lines 392-397 and 408: the keywords in the text that is analysed.  The
\* default phrase "simple melody" holds none of them.
AnalysedText(description) ==
    IF description.kind = "none" \/ description.blank THEN {}
    ELSE description.text

\* The index of the first row of a keyword table with a word in the text
\* (the if/elif chains), 0 when no row has one.
LastHit(table, text) ==
    LET hits == {i \in 1 .. Len(table) : table[i].words \cap text # {}}
    IN  IF hits = {} THEN 0 ELSE CHOOSE i \in hits : \A j \in hits : i >= j
FirstHit(table, text) ==
    LET hits == {i \in 1 .. Len(table) : table[i].words \cap text # {}}
    IN  IF hits = {} THEN 0 ELSE CHOOSE i \in hits : \A j \in hits : i <= j

\* Lines 411-425.
StyleKeywords ==
    << [is |-> "classical",  words |-> {"classical", "orchestra", "symphony"}],
       [is |-> "jazz",       words |-> {"jazz", "swing", "bebop"}],
       [is |-> "electronic", words |-> {"electronic", "synth", "edm"}],
       [is |-> "ambient",    words |-> {"ambient", "atmospheric", "drone"}],
       [is |-> "rock",       words |-> {"rock", "metal", "punk"}],
       [is |-> "folk",       words |-> {"folk", "acoustic", "country"}] >>

\* The styles the analysis can settle on (more than one: random.choice).
InferredStyles(style_arg, text) ==
    IF style_arg # "None" THEN {style_arg}
    ELSE LET i == FirstHit(StyleKeywords, text)
         IN  IF i = 0 THEN MusicStyles ELSE {StyleKeywords[i].is}

\* Lines 429-440.
ScaleKeywords ==
    << [is |-> {"major"},  words |-> {"bright", "happy", "major"}],
       [is |-> {"minor"},  words |-> {"sad", "dark", "minor"}],
       [is |-> {"dorian"}, words |-> {"modal", "dorian"}],
       [is |-> {"blues"},  words |-> {"blues", "bluesy"}],
       [is |-> {"phrygian", "locrian", "whole_tone"},
        words |-> {"exotic", "eastern"}] >>

InferredScales(text) ==
    LET i == FirstHit(ScaleKeywords, text)
    IN  IF i = 0 THEN {"major", "minor", "dorian", "mixolydian"}
        ELSE ScaleKeywords[i].is

\* Lines 453-457.
InferredTimeSigs(text) ==
    IF "waltz" \in text THEN {<<3, 4>>}
    ELSE IF "complex" \in text THEN {<<5, 4>>, <<7, 8>>}
         ELSE {<<4, 4>>}

\* What lines 391-457 can end in.  The TypeError is raised before the first
\* draw; a call that passes it always draws (the tempo, lines 446-451, which
\* nothing reads afterwards).
AnalyzeOutcomesLate(a) ==
    LET text == AnalysedText(a.description) IN
    IF ~IsNumber(a.duration)
    THEN {[err |-> "TypeError", drew |-> TRUE, duration |-> a.duration,
           style |-> sty, scale_name |-> "", time_sig |-> <<4, 4>>] :
             sty \in InferredStyles(a.style, text)}
    ELSE {[err |-> "", drew |-> TRUE, duration |-> ClampDuration(a.duration),
           style |-> sty, scale_name |-> sc, time_sig |-> ts] :
             sty \in InferredStyles(a.style, text),
             sc \in InferredScales(text),
             ts \in InferredTimeSigs(text)}
AnalyzeOutcomes(a) ==
    LET text == AnalysedText(a.description) IN
    IF ~IsNumber(a.duration)
    THEN {[err |-> "TypeError", drew |-> FALSE, duration |-> a.duration,
           style |-> a.style, scale_name |-> "", time_sig |-> <<4, 4>>]}
    ELSE {[err |-> "", drew |-> TRUE, duration |-> ClampDuration(a.duration),
           style |-> sty, scale_name |-> sc, time_sig |-> ts] :
             sty \in InferredStyles(a.style, text),
             sc \in InferredScales(text),
             ts \in InferredTimeSigs(text)}

\* The arguments tried.
DurationArgs ==
    {Num(Seconds(0 - 5)), Num(0), Num(1), Num(16), Num(47),
     Num(Seconds(MaxRunSeconds)),
     Num(Seconds(MaxDuration)), Num(Seconds(MaxDuration) + 1),
     Num(Seconds(1000)), NaN, NotANumber}

DescriptionArgs ==
    {Desc("none", TRUE, {}),                    \* None
     Desc("other", FALSE, {"jazz"}),            \* ['jazz']
     Desc("str", TRUE, {}),                     \* "" and "   "
     Desc("str", FALSE, {"jazz", "waltz"}),     \* "jazz waltz"
     Desc("str", FALSE, {"ambient", "drone", "sad", "complex"})}

StyleArguments == {"None", "classical", "electronic"}

SampleRates == {50, 64}

\* A call begins: the arguments are bound, nothing has run.
GC_Call ==
    /\ pc = "Idle"
    /\ \E de \in DescriptionArgs, du \in DurationArgs, st \in StyleArguments,
          sr \in SampleRates :
         args' = [description |-> de, duration |-> du, style |-> st,
                  sample_rate |-> sr]
    /\ pc' = "Analyze"
    /\ entry' = PROGRESSIONS
    /\ err' = "" /\ raised_in' = "" /\ drew' = FALSE
    /\ duration' = NoDuration /\ style' = "None" /\ scale_name' = ""
    /\ time_sig' = <<4, 4>> /\ rhythm_pattern' = <<>>
    /\ extended_pattern' = <<>> /\ melody' = <<>>
    /\ progression' = <<>> /\ allocated' = FALSE /\ composition' = <<>>
    /\ scaled' = FALSE
    /\ UNCHANGED <<PROGRESSIONS, progVars, libVars>>

\* Lines 391-457.
GC_Analyze ==
    /\ pc = "Analyze"
    /\ \E o \in AnalyzeOutcomes(args) :
         /\ err' = o.err
         /\ drew' = o.drew
         /\ duration' = o.duration
         /\ style' = o.style
         /\ scale_name' = o.scale_name
         /\ time_sig' = o.time_sig
         /\ pc' = IF o.err = "" THEN "ScaleAndRhythm" ELSE "Raised"
         /\ raised_in' = IF o.err = "" THEN "" ELSE "Analyze"
    /\ UNCHANGED <<PROGRESSIONS, progVars, libVars, args, entry, rhythm_pattern,
                   extended_pattern, melody, progression, allocated,
                   composition, scaled>>

-----------------------------------------------------------------------------
(* RhythmGenerator.generate_rhythm_pattern *)

\* subdivisions = [1.0, 0.5, 0.25, 0.125], in ticks
Subdivisions ==
    << TicksPerSecond, TicksPerSecond \div 2, TicksPerSecond \div 4,
       TicksPerSecond \div 8 >>

\* How many of them random.choice draws from; complexity is in tenths.
PoolSizeAll(complexity) == 4
PoolSize(complexity) ==
    IF complexity < 3 THEN 2 ELSE IF complexity < 7 THEN 3 ELSE 4

\* One pass of the loop draws a subdivision (sub: its index) and
\* random.random() (dotted: whether it was below complexity * 0.3).
\* random.random() is in [0, 1): below complexity * 0.3 only if that is > 0,
\* and always below it once it is >= 1.
RhythmDrawOk(draw, complexity) ==
    /\ draw.sub \in 1 .. PoolSize(complexity)
    /\ draw.dotted => complexity > 0
    /\ ~draw.dotted => complexity * 3 < 100

\* subdivision *= 0.75
RhythmEntryQuartered(draw) ==
    IF draw.dotted THEN Subdivisions[draw.sub] \div 4
    ELSE Subdivisions[draw.sub]
RhythmEntry(draw) ==
    IF draw.dotted THEN (Subdivisions[draw.sub] * 3) \div 4
    ELSE Subdivisions[draw.sub]

\* The exit test of the loop (lines 143 and 159-160)
BarFilledStrict(current_time, beats_per_measure) ==
    current_time > Seconds(beats_per_measure)
BarFilled(current_time, beats_per_measure) ==
    current_time >= Seconds(beats_per_measure)

\* The loop of lines 143-160 on the draws cycle[1], cycle[2], ..., cycle[1], ...
RECURSIVE RhythmLoop(_, _, _, _)
RhythmLoop(pattern, current_time, beats_per_measure, cycle) ==
    IF ~BarFilled(current_time, beats_per_measure)
    THEN LET e == RhythmEntry(cycle[(Len(pattern) % Len(cycle)) + 1])
         IN  RhythmLoop(Append(pattern, e), current_time + e,
                        beats_per_measure, cycle)
    ELSE pattern

generate_rhythm_pattern(ts, complexity, cycle) ==
    RhythmLoop(<<>>, 0, ts[1], cycle)

\* The PRNG streams tried for the rhythm, each a cycle of draws.
RhythmDrawCycles ==
    { << [sub |-> 1, dotted |-> FALSE] >>,
      << [sub |-> 2, dotted |-> FALSE] >>,
      << [sub |-> 3, dotted |-> TRUE] >>,
      << [sub |-> 1, dotted |-> TRUE], [sub |-> 2, dotted |-> FALSE] >> }

-----------------------------------------------------------------------------
(* generate_rhythm_pattern called directly, one loop pass per step *)

\* class TimeSignature
TimeSignatures == {<<4, 4>>, <<3, 4>>, <<6, 8>>, <<5, 4>>, <<7, 8>>}

\* The complexity arguments tried, in tenths; some outside [0, 1].
ComplexityArgs == {0 - 5, 0, 2, 3, 5, 7, 10, 15, 40}

RhythmDraws == [sub : 1 .. 4, dotted : BOOLEAN]

\* The PRNG streams tried: every cycle of up to MaxCycle draws.
RhythmStreams ==
    UNION {[1 .. n -> RhythmDraws] : n \in 1 .. MaxCycle}

IdleRhythm ==
    [pc |-> "idle", time_sig |-> <<4, 4>>, complexity |-> 0, stream |-> <<>>,
     pattern |-> <<>>, current_time |-> 0, result |-> <<>>]

\* Lines 133-141.
RP_Call ==
    /\ rp.pc = "idle"
    /\ \E ts \in TimeSignatures, c \in ComplexityArgs, st \in RhythmStreams :
         /\ \A i \in 1 .. Len(st) : RhythmDrawOk(st[i], c)
         /\ rp' = [pc |-> "loop", time_sig |-> ts, complexity |-> c,
                   stream |-> st, pattern |-> <<>>, current_time |-> 0,
                   result |-> <<>>]
    /\ UNCHANGED <<PROGRESSIONS, progVars, compVars, ml, lib>>

\* One pass of the while loop, lines 143-157.
RP_Step ==
    /\ rp.pc = "loop"
    /\ ~BarFilled(rp.current_time, rp.time_sig[1])
    /\ LET e == RhythmEntry(rp.stream[(Len(rp.pattern) % Len(rp.stream)) + 1])
       IN  rp' = [rp EXCEPT !.pattern = Append(@, e),
                            !.current_time = @ + e]
    /\ UNCHANGED <<PROGRESSIONS, progVars, compVars, ml, lib>>

\* Loop exit and line 162.
RP_Return ==
    /\ rp.pc = "loop"
    /\ BarFilled(rp.current_time, rp.time_sig[1])
    /\ rp' = [rp EXCEPT !.pc = "done", !.result = rp.pattern]
    /\ UNCHANGED <<PROGRESSIONS, progVars, compVars, ml, lib>>

-----------------------------------------------------------------------------
(* generate_composition: ScaleAndRhythm, Melody, Harmony *)

RECURSIVE Sum(_)
Sum(seq) == IF seq = <<>> THEN 0 ELSE Head(seq) + Sum(Tail(seq))

\* list * n
RECURSIVE Repeat(_, _)
Repeat(seq, n) == IF n <= 0 THEN <<>> ELSE seq \o Repeat(seq, n - 1)

\* complexity = 0.3 if style == MusicStyle.AMBIENT else 0.7, in tenths
Complexity(sty) == IF sty = "ambient" THEN 3 ELSE 7

\* [:int(duration * 2)], line 471
Truncated(pattern, ticks) ==
    PySliceTo(pattern, (ticks * 2) \div TicksPerSecond)

\* Lines 470-471, for a finite duration > 0 (int truncates):
\* num_repetitions = int(duration / pattern_duration) + 1
\* extended_pattern = (rhythm_pattern * num_repetitions)[:int(duration * 2)]
ExtendedPattern(pattern, ticks) ==
    LET pattern_duration == Sum(pattern)
        num_repetitions == (ticks \div pattern_duration) + 1
    IN  Truncated(Repeat(pattern, num_repetitions), ticks)

\* Lines 459-471.  int(nan) raises ValueError.  (The fallback of lines
\* 465-468 never runs: a pattern has at least one entry, all positive.)
GC_ScaleAndRhythm ==
    /\ pc = "ScaleAndRhythm"
    /\ duration.kind = "num" => duration.ticks <= Seconds(MaxRunSeconds)
    /\ \E cycle \in RhythmDrawCycles :
         /\ \A i \in 1 .. Len(cycle) : RhythmDrawOk(cycle[i], Complexity(style))
         /\ rhythm_pattern' =
               generate_rhythm_pattern(time_sig, Complexity(style), cycle)
    /\ IF duration.kind = "nan"
       THEN /\ pc' = "Raised" /\ err' = "ValueError"
            /\ raised_in' = "ScaleAndRhythm"
            /\ extended_pattern' = <<>>
       ELSE /\ pc' = "Melody"
            /\ extended_pattern' = ExtendedPattern(rhythm_pattern', duration.ticks)
            /\ UNCHANGED <<err, raised_in>>
    /\ UNCHANGED <<PROGRESSIONS, progVars, libVars, args, entry, drew, duration, style,
                   scale_name, time_sig, melody, progression, allocated,
                   composition, scaled>>

\* generate_melody, lines 296-313, as far as later steps read the notes: one
\* note per rhythm entry, start_time the sum of the entries before it.  (Pitch
\* and velocity only shape sample values, which the buffer does not hold.)
RECURSIVE generate_melody(_, _)
generate_melody(pattern, current_time) ==
    IF pattern = <<>> THEN <<>>
    ELSE << [duration |-> Head(pattern), start_time |-> current_time] >>
         \o generate_melody(Tail(pattern), current_time + Head(pattern))

\* Line 474.
GC_Melody ==
    /\ pc = "Melody"
    /\ melody' = generate_melody(extended_pattern, 0)
    /\ pc' = "Harmony"
    /\ UNCHANGED <<PROGRESSIONS, progVars, libVars, args, err, raised_in, entry, drew,
                   duration, style, scale_name, time_sig, rhythm_pattern,
                   extended_pattern, progression, allocated, composition,
                   scaled>>

\* generate_progression run to the end of its loop: the lists the chosen
\* template can have become, over all draws.
RECURSIVE ExtendedLists(_, _)
ExtendedLists(prog, length) ==
    IF Len(prog) >= length THEN {prog}
    ELSE UNION {ExtendedLists(ExtendOnce(prog, d), length) : d \in ExtensionDraws}

\* Lines 476-483; the call of generate_progression runs whole, and leaves
\* the list it lengthened in the class-level table.
GC_Harmony ==
    /\ pc = "Harmony"
    /\ LET chord_style == IF style = "jazz" THEN "jazz" ELSE "classical"
           progression_length == Max(1, Len(melody) \div 4)
           s == EffectiveStyle(PROGRESSIONS, chord_style)
       IN  \E idx \in 1 .. Len(PROGRESSIONS[s]) :
           \E final \in ExtendedLists(PROGRESSIONS[s][idx], progression_length) :
              /\ PROGRESSIONS' = [PROGRESSIONS EXCEPT ![s][idx] = final]
              /\ progression' =
                    LET r == PySliceTo(final, progression_length)
                    IN  IF r = <<>> THEN <<0>> ELSE r
    /\ pc' = "Render"
    /\ UNCHANGED <<progVars, libVars, args, err, raised_in, entry, drew, duration, style,
                   scale_name, time_sig, rhythm_pattern, extended_pattern,
                   melody, allocated, composition, scaled>>

-----------------------------------------------------------------------------
(* generate_melody called directly, one note per step *)

\* scale_freqs = [440.0]
DefaultPitch == 440

\* The scales tried: the first n rungs of a ladder of distinct pitches.
ScaleArgs == {[i \in 1 .. n |-> 200 + 20 * i] : n \in 0 .. MaxScale}

\* The rhythm patterns tried: up to MaxNotes entries of 0.5 s or 0.75 s.
MelodyRhythms ==
    UNION {[1 .. n -> {TicksPerSecond \div 2, (TicksPerSecond * 3) \div 4}] :
              n \in 0 .. MaxNotes}

MelodyStyles == {"classical", "ambient"}

\* Lines 281-292: leap_max.  (step_probability is strictly between 0 and 1
\* for every style, so a step and a leap are both possible each time.)
LeapMax(sty) ==
    IF sty = "classical" THEN 5
    ELSE IF sty = "jazz" THEN 8
         ELSE IF sty = "electronic" THEN 12 ELSE 6

\* random.uniform(0.5, 1.0), in hundredths: the two ends
VelocityDraws == {50, 100}

\* max(0, min(len(scale_freqs) - 1, index)), lines 301 and 306
ClampIndexWrapping(index, n) == index % n
ClampIndex(index, n) == Max(0, Min(n - 1, index))

\* current_time += duration, line 313
NextStartSame(current_time, dur) == current_time
NextStart(current_time, dur) == current_time + dur

IdleMelody ==
    [pc |-> "idle", given |-> <<>>, scale_freqs |-> <<>>, rhythm |-> <<>>,
     style |-> "None", index |-> 0, prev |-> 0, move |-> 0, notes |-> <<>>,
     current_time |-> 0, result |-> <<>>]

\* Lines 273-294: the default scale, and the first index, drawn by
\* random.randint(0, max(0, len(scale_freqs) // 2)).
ML_Call ==
    /\ ml.pc = "idle"
    /\ \E given \in ScaleArgs, rhythm \in MelodyRhythms, sty \in MelodyStyles :
         LET scale_freqs == IF given = <<>> THEN <<DefaultPitch>> ELSE given
         IN  \E first \in 0 .. Max(0, Len(scale_freqs) \div 2) :
                ml' = [pc |-> "loop", given |-> given,
                       scale_freqs |-> scale_freqs, rhythm |-> rhythm,
                       style |-> sty, index |-> first, prev |-> first,
                       move |-> 0, notes |-> <<>>, current_time |-> 0,
                       result |-> <<>>]
    /\ UNCHANGED <<PROGRESSIONS, progVars, compVars, rp, lib>>

\* One pass of the for loop, lines 296-313.
ML_Step ==
    /\ ml.pc = "loop"
    /\ Len(ml.notes) < Len(ml.rhythm)
    /\ \E stepwise \in BOOLEAN, direction \in {0 - 1, 1},
          leap_size \in 2 .. LeapMax(ml.style), velocity \in VelocityDraws :
         LET dur == ml.rhythm[Len(ml.notes) + 1]
             move == IF stepwise THEN direction ELSE direction * leap_size
             index == ClampIndex(ml.index + move, Len(ml.scale_freqs))
             note == [frequency |-> ml.scale_freqs[index + 1],
                      duration |-> dur, velocity |-> velocity,
                      start_time |-> ml.current_time]
         IN  ml' = [ml EXCEPT !.prev = ml.index, !.move = move,
                              !.index = index,
                              !.notes = Append(@, note),
                              !.current_time = NextStart(@, dur)]
    /\ UNCHANGED <<PROGRESSIONS, progVars, compVars, rp, lib>>

\* Line 315.
ML_Return ==
    /\ ml.pc = "loop"
    /\ Len(ml.notes) >= Len(ml.rhythm)
    /\ ml' = [ml EXCEPT !.pc = "done", !.result = ml.notes]
    /\ UNCHANGED <<PROGRESSIONS, progVars, compVars, rp, lib>>

-----------------------------------------------------------------------------
(* generate_composition: Render *)

\* int(seconds * self.sample_rate) for a time of ticks / TicksPerSecond s,
\* rounded to the nearest sample instead (Python's round: halves to even)
TotalSamplesRounded(ticks, sr) ==
    LET q == (ticks * sr) \div TicksPerSecond
        r2 == 2 * ((ticks * sr) % TicksPerSecond)
    IN  IF r2 > TicksPerSecond \/ (r2 = TicksPerSecond /\ q % 2 = 1)
        THEN q + 1 ELSE q
TotalSamples(ticks, sr) == (ticks * sr) \div TicksPerSecond

\* np.zeros(n)
Zeros(n) == [i \in 1 .. n |-> 0]

\* buf[first:last] += audio, for first <= last <= len(buf): one more render
\* is mixed into each sample of the range.
MixInto(buf, first, last, k) ==
    [i \in 1 .. Len(buf) |-> IF first < i /\ i <= last THEN buf[i] + k ELSE buf[i]]

\* end_sample = min(start + len(audio), total_samples), lines 506 and 530
EndSampleUnclipped(start_sample, n, total_samples) == start_sample + n
EndSample(start_sample, n, total_samples) == Min(start_sample + n, total_samples)

\* Lines 490-509: the melody, from note n on, current_sample samples in.  A
\* note's audio has int(note.duration * sample_rate) samples (line 319).
RECURSIVE MixMelody(_, _, _, _, _)
MixMelody(buf, notes, n, current_sample, sr) ==
    IF n > Len(notes) \/ current_sample >= Len(buf) THEN buf
    ELSE LET note_len == TotalSamples(notes[n].duration, sr)
             end_sample == EndSample(current_sample, note_len, Len(buf))
         IN  MixMelody(MixInto(buf, current_sample, end_sample, 1), notes,
                       n + 1, current_sample + note_len, sr)

\* create_chord: three pitches, four for the seventh chords of the jazz style
ChordSize(sty) == IF sty = "jazz" THEN 4 ELSE 3

\* The slices composition[first:last] the melody loop adds to, in order,
\* each with the number of its note and the length of the note's audio.
RECURSIVE MelodyWrites(_, _, _, _, _)
MelodyWrites(notes, n, current_sample, sr, total_samples) ==
    IF n > Len(notes) \/ current_sample >= total_samples THEN <<>>
    ELSE LET note_len == TotalSamples(notes[n].duration, sr)
         IN  << [first |-> current_sample,
                 last |-> EndSample(current_sample, note_len, total_samples),
                 len |-> note_len, of |-> n, k |-> 1] >>
             \o MelodyWrites(notes, n + 1, current_sample + note_len, sr,
                             total_samples)

\* start_sample = int(i * chord_duration * self.sample_rate), lines 512-515,
\* chord_duration being duration / len(progression)
ChordStartNext(i, n_chords, ticks, sr) ==
    ((i + 1) * ticks * sr) \div (n_chords * TicksPerSecond)
ChordStart(i, n_chords, ticks, sr) ==
    (i * ticks * sr) \div (n_chords * TicksPerSecond)

\* Lines 512-535: the chords, from entry i (counted from 0) on.
\* chord_duration = duration / len(progression), so entry i starts at sample
\* int(i * chord_duration * sample_rate) and has int(chord_duration *
\* sample_rate) samples.
RECURSIVE MixChords(_, _, _, _, _, _)
MixChords(buf, n_chords, i, ticks, sr, size) ==
    LET start_sample == ChordStart(i, n_chords, ticks, sr)
        chord_samples == (ticks * sr) \div (n_chords * TicksPerSecond)
        end_sample == EndSample(start_sample, chord_samples, Len(buf))
    IN  IF i >= n_chords \/ start_sample >= Len(buf) THEN buf
        ELSE MixChords(MixInto(buf, start_sample, end_sample, size),
                       n_chords, i + 1, ticks, sr, size)

\* The slices the chord loop adds to, in order.
RECURSIVE ChordWrites(_, _, _, _, _, _)
ChordWrites(n_chords, i, ticks, sr, total_samples, size) ==
    LET start_sample == ChordStart(i, n_chords, ticks, sr)
        chord_samples == (ticks * sr) \div (n_chords * TicksPerSecond)
    IN  IF i >= n_chords \/ start_sample >= total_samples THEN <<>>
        ELSE << [first |-> start_sample,
                 last |-> EndSample(start_sample, chord_samples, total_samples),
                 len |-> chord_samples, of |-> i, k |-> size] >>
             \o ChordWrites(n_chords, i + 1, ticks, sr, total_samples, size)

\* A buffer after the slices `writes` were added to, one after the other.
RECURSIVE ApplyWrites(_, _)
ApplyWrites(buf, writes) ==
    IF writes = <<>> THEN buf
    ELSE ApplyWrites(MixInto(buf, Head(writes).first, Head(writes).last,
                             Head(writes).k), Tail(writes))

\* Lines 485-535.
GC_Render ==
    /\ pc = "Render"
    /\ LET total_samples == TotalSamples(duration.ticks, args.sample_rate)
           with_melody == MixMelody(Zeros(total_samples), melody, 1, 0,
                                    args.sample_rate)
       IN  composition' = MixChords(with_melody, Max(1, Len(progression)), 0,
                                    duration.ticks, args.sample_rate,
                                    ChordSize(style))
    /\ allocated' = TRUE
    /\ pc' = "Effects"
    /\ UNCHANGED <<PROGRESSIONS, progVars, libVars, args, err, raised_in, entry, drew,
                   duration, style, scale_name, time_sig, rhythm_pattern,
                   extended_pattern, melody, progression, scaled>>

-----------------------------------------------------------------------------
(* add_effects, and generate_composition: Effects, Normalize *)

\* Lines 538-544: the effect amounts by style, in tenths.
EffectsFor(sty) ==
    IF sty = "ambient" THEN [reverb |-> 4, chorus |-> 2]
    ELSE IF sty = "electronic" THEN [chorus |-> 3, distortion |-> 1]
         ELSE IF sty = "classical" THEN [reverb |-> 2]
              ELSE << >>

Wanted(effects, name) == name \in DOMAIN effects /\ effects[name] > 0

\* One delay tap (lines 363-367, 372-379): tap[delay:] = buf[:-delay] * amount,
\* then buf + tap.  With delay = 0 the right side is buf[:0], which has no
\* samples, and the assignment raises ValueError.  `touched` tells whether
\* the samples were recomputed.
DelayTap(buf, delay) ==
    IF Len(buf) <= delay THEN [err |-> "", buf |-> buf, touched |-> FALSE]
    ELSE IF delay = 0 THEN [err |-> "ValueError", buf |-> buf, touched |-> TRUE]
         ELSE [err |-> "", touched |-> TRUE,
               buf |-> [i \in 1 .. Len(buf) |->
                          buf[i] + (IF i > delay THEN buf[i - delay] ELSE 0)]]

\* int(0.05 * self.sample_rate) and int(0.02 * self.sample_rate)
ReverbDelay(sr) == (5 * sr) \div 100
ChorusDelay(sr) == (2 * sr) \div 100

\* Lines 356-386.  Distortion maps each sample through tanh, which keeps a
\* zero sample zero and a non-zero one non-zero.
add_effects(audio, effects, sr) ==
    LET afterReverb ==
            IF Wanted(effects, "reverb")
            THEN DelayTap(audio, ReverbDelay(sr))
            ELSE [err |-> "", buf |-> audio, touched |-> FALSE]
        afterChorus ==
            IF afterReverb.err # "" THEN afterReverb
            ELSE IF Wanted(effects, "chorus")
                 THEN LET r == DelayTap(afterReverb.buf, ChorusDelay(sr))
                      IN  [r EXCEPT !.touched = @ \/ afterReverb.touched]
                 ELSE afterReverb
    IN  IF afterChorus.err = "" /\ Wanted(effects, "distortion")
        THEN [afterChorus EXCEPT !.touched = TRUE]
        ELSE afterChorus

\* Lines 537-547.
GC_Effects ==
    /\ pc = "Effects"
    /\ LET effects == EffectsFor(style)
           r == IF DOMAIN effects # {}
                THEN add_effects(composition, effects, args.sample_rate)
                ELSE [err |-> "", buf |-> composition, touched |-> FALSE]
       IN  /\ composition' = r.buf
           /\ err' = r.err
           /\ pc' = IF r.err = "" THEN "Normalize" ELSE "Raised"
           /\ raised_in' = IF r.err = "" THEN "" ELSE "Effects"
    /\ UNCHANGED <<PROGRESSIONS, progVars, libVars, args, entry, drew, duration, style,
                   scale_name, time_sig, rhythm_pattern, extended_pattern,
                   melody, progression, allocated, scaled>>

\* Whether a sample can be other than 0.0: only when something was mixed in.
Silent(buf) == \A i \in 1 .. Len(buf) : buf[i] = 0

\* Lines 549-553.  np.max of an array without elements raises ValueError.
\* A buffer with renders mixed in has a peak > 0, unless every sample mixed
\* in happened to be 0.0 (the first sample of every note is sin(0) = 0).
GC_Normalize ==
    /\ pc = "Normalize"
    /\ IF Len(composition) = 0
       THEN /\ pc' = "Raised" /\ err' = "ValueError" /\ raised_in' = "Normalize"
            /\ UNCHANGED scaled
       ELSE /\ pc' = "Done"
            /\ \E peak_positive \in {b \in BOOLEAN : b => ~Silent(composition)} :
                  scaled' = peak_positive
            /\ UNCHANGED <<err, raised_in>>
    /\ UNCHANGED <<PROGRESSIONS, progVars, libVars, args, entry, drew, duration, style,
                   scale_name, time_sig, rhythm_pattern, extended_pattern,
                   melody, progression, allocated, composition>>

\* No direct call of a function without state has been made.
NoCall == [fn |-> "none"]

\* ScaleGenerator.SCALES
SCALES ==
    [major      |-> <<0, 2, 4, 5, 7, 9, 11>>,
     minor      |-> <<0, 2, 3, 5, 7, 8, 10>>,
     dorian     |-> <<0, 2, 3, 5, 7, 9, 10>>,
     phrygian   |-> <<0, 1, 3, 5, 7, 8, 10>>,
     lydian     |-> <<0, 2, 4, 6, 7, 9, 11>>,
     mixolydian |-> <<0, 2, 4, 5, 7, 9, 10>>,
     locrian    |-> <<0, 1, 3, 5, 6, 8, 10>>,
     pentatonic |-> <<0, 2, 4, 7, 9>>,
     blues      |-> <<0, 3, 5, 6, 7, 10>>,
     chromatic  |-> <<0, 1, 2, 3, 4, 5, 6, 7, 8, 9, 10, 11>>,
     whole_tone |-> <<0, 2, 4, 6, 8, 10>>,
     diminished |-> <<0, 2, 3, 5, 6, 8, 9, 11>>]

\* A frequency root_freq * 2 ** (octave + interval / 12) is held as its
\* pitch in semitones above the root, 12 * octave + interval: for a root
\* > 0 the frequency is positive and grows strictly with the pitch.
Pitch(octave, interval) == 12 * octave + interval

\* Lines 74-77, from octave `octave` on; and the same with the two loops
\* exchanged.
RECURSIVE LadderByOffset(_, _, _)
LadderByOffset(intervals, j, octaves) ==
    IF j > Len(intervals) THEN <<>>
    ELSE [o \in 1 .. octaves |-> Pitch(o - 1, intervals[j])]
         \o LadderByOffset(intervals, j + 1, octaves)
RECURSIVE Ladder(_, _, _)
Ladder(intervals, octave, octaves) ==
    IF octave >= octaves THEN <<>>
    ELSE [j \in 1 .. Len(intervals) |-> Pitch(octave, intervals[j])]
         \o Ladder(intervals, octave + 1, octaves)

\* Lines 66-79.
get_scale_frequenciesByOffset(name, octaves) ==
    LadderByOffset(SCALES[IF name \in DOMAIN SCALES THEN name
                           ELSE "major"], 1, octaves)
get_scale_frequencies(name, octaves) ==
    Ladder(SCALES[IF name \in DOMAIN SCALES THEN name
                  ELSE "major"], 0, octaves)

ScaleNameArgs == DOMAIN SCALES \cup {"harmonic_minor"}
RootArgs == {220, 440}

SC_Call ==
    /\ \E root \in RootArgs, name \in ScaleNameArgs, k \in 0 .. MaxOctaves :
         lib' = [fn |-> "get_scale_frequencies", root_freq |-> root,
                 scale_name |-> name, octaves |-> k,
                 result |-> get_scale_frequencies(name, k)]
    /\ UNCHANGED <<PROGRESSIONS, progVars, compVars, rp, ml>>

\* create_chord: chord_intervals
ChordIntervals ==
    [major      |-> <<0, 4, 7>>,
     minor      |-> <<0, 3, 7>>,
     diminished |-> <<0, 3, 6>>,
     augmented  |-> <<0, 4, 8>>,
     major7     |-> <<0, 4, 7, 11>>,
     minor7     |-> <<0, 3, 7, 10>>,
     dominant7  |-> <<0, 4, 7, 10>>,
     sus2       |-> <<0, 2, 7>>,
     sus4       |-> <<0, 5, 7>>,
     add9       |-> <<0, 4, 7, 14>>]

\* Lines 265-267, n times: the lowest pitch goes up an octave and to the end.
RECURSIVE InvertedSameOctave(_, _)
InvertedSameOctave(pitches, n) ==
    IF n <= 0 THEN pitches
    ELSE InvertedSameOctave(Tail(pitches) \o <<Head(pitches)>>, n - 1)
RECURSIVE Inverted(_, _)
Inverted(pitches, n) ==
    IF n <= 0 THEN pitches
    ELSE Inverted(Tail(pitches) \o <<Head(pitches) + 12>>, n - 1)

\* Lines 246-269, the pitches in semitones above root_freq; and the same
\* with the minor triad for a type the table does not have.
create_chordMinorDefault(chord_type, inversion) ==
    LET intervals == IF chord_type \in DOMAIN ChordIntervals
                     THEN ChordIntervals[chord_type]
                     ELSE ChordIntervals["minor"]
    IN  Inverted(intervals, inversion % Len(intervals))
create_chord(chord_type, inversion) ==
    LET intervals == IF chord_type \in DOMAIN ChordIntervals
                     THEN ChordIntervals[chord_type]
                     ELSE ChordIntervals["major"]
    IN  Inverted(intervals, inversion % Len(intervals))

ChordTypeArgs == DOMAIN ChordIntervals \cup {"power"}

CH_Call ==
    /\ \E root \in RootArgs, type \in ChordTypeArgs, inv \in 0 .. MaxInversion :
         lib' = [fn |-> "create_chord", root_freq |-> root,
                 chord_type |-> type, inversion |-> inv,
                 result |-> create_chord(type, inv)]
    /\ UNCHANGED <<PROGRESSIONS, progVars, compVars, rp, ml>>

\* The descriptions tried for the style analysis: any of these keywords,
\* one of each style row, may occur in the lower-cased text.
StyleWordsTried == {"symphony", "swing", "synth", "drone", "punk", "country"}

\* Lines 407-425 of generate_composition, on their own.
AN_Call ==
    /\ \E style_arg \in {"None"} \cup MusicStyles, text \in SUBSET StyleWordsTried :
         \E sty \in InferredStyles(style_arg, text) :
            lib' = [fn |-> "infer_style", style |-> style_arg, text |-> text,
                    result |-> sty]
    /\ UNCHANGED <<PROGRESSIONS, progVars, compVars, rp, ml>>

\* The effect maps tried: any of the three keys, the amounts in tenths.
EffectMaps ==
    UNION {[keys -> {0 - 1, 0, 3}] :
              keys \in SUBSET {"reverb", "chorus", "distortion"}}

\* The buffers tried: up to MaxBuffer samples, each silent or not.
BufferArgs == UNION {[1 .. n -> {0, 1}] : n \in 0 .. MaxBuffer}

\* Sample rates with the chorus delay int(0.02 * sample_rate) 0 and 1.
EffectSampleRates == {40, 50}

FX_Call ==
    /\ \E audio \in BufferArgs, effects \in EffectMaps,
          sr \in EffectSampleRates :
         lib' = [fn |-> "add_effects", audio |-> audio, effects |-> effects,
                 sample_rate |-> sr,
                 result |-> add_effects(audio, effects, sr)]
    /\ UNCHANGED <<PROGRESSIONS, progVars, compVars, rp, ml>>


\* The state when the module has been imported and nothing called.
Init ==
    /\ PROGRESSIONS = InitialPROGRESSIONS
    /\ gp = [c \in Callers |-> IdleFrame]
    /\ ncalls = 0
    /\ pc = "Idle"
    /\ args = NoArgs
    /\ err = ""
    /\ raised_in = ""
    /\ entry = InitialPROGRESSIONS
    /\ drew = FALSE
    /\ duration = NoDuration
    /\ style = "None"
    /\ scale_name = ""
    /\ time_sig = <<4, 4>>
    /\ rhythm_pattern = <<>>
    /\ extended_pattern = <<>>
    /\ melody = <<>>
    /\ progression = <<>>
    /\ allocated = FALSE
    /\ composition = <<>>
    /\ scaled = FALSE
    /\ rp = IdleRhythm
    /\ ml = IdleMelody
    /\ lib = NoCall

\* One caller: generate_progression calls one after the other.
ProgNext == GP_Call(1) \/ GP_Extend(1) \/ GP_Return(1)

SpecProg == Init /\ [][ProgNext]_vars

\* Two callers (threads), their calls interleaved at loop-pass granularity.
ConcNext == \E c \in Callers : GP_Call(c) \/ GP_Extend(c) \/ GP_Return(c)

SpecConc == Init /\ [][ConcNext]_vars

\* generate_rhythm_pattern called directly.
RhythmNext == RP_Call \/ RP_Step \/ RP_Return

SpecRhythm == Init /\ [][RhythmNext]_vars

\* The call is one thread of control: a loop pass or the return that can run
\* does run.
SpecRhythmLive == SpecRhythm /\ WF_vars(RP_Step) /\ WF_vars(RP_Return)

\* generate_melody called directly.
MelodyNext == ML_Call \/ ML_Step \/ ML_Return

SpecMelody == Init /\ [][MelodyNext]_vars

\* The functions without state and generate_progression, called directly:
\* a behaviour makes one call of the former or several of the latter.
TheoryNext ==
    \/ lib = NoCall /\ ncalls = 0 /\ SC_Call
    \/ lib = NoCall /\ ncalls = 0 /\ CH_Call
    \/ lib = NoCall /\ ncalls = 0 /\ FX_Call
    \/ lib = NoCall /\ ncalls = 0 /\ AN_Call
    \/ lib = NoCall /\ ProgNext

SpecTheory == Init /\ [][TheoryNext]_vars

-----------------------------------------------------------------------------
(* Reference runs, used to state the claims about generate_progression *)

\* The results a call can return when it runs with nothing else touching
\* its list, started on the list `prog`, its PRNG stream beginning with the
\* extension draws `ds` (draws beyond ds, if the run needs them, are free).
RECURSIVE SoloResults(_, _, _)
SoloResults(prog, length, ds) ==
    IF Len(prog) >= length THEN {PySliceTo(prog, length)}
    ELSE IF ds # <<>>
         THEN SoloResults(ExtendOnce(prog, Head(ds)), length, Tail(ds))
         ELSE UNION {SoloResults(ExtendOnce(prog, d), length, <<>>) :
                        d \in ExtensionDraws}

Returned(c) == gp[c].pc = "done"

\* The template a frame chose, as the source text of the class defines it.
Pristine(c) == InitialPROGRESSIONS[gp[c].style][gp[c].idx]

-----------------------------------------------------------------------------
(* Claims about generate_progression *)

\* C6: after any call the class-level table PROGRESSIONS has exactly the
\* contents it had before the call (here: the contents the class body gives
\* it, since every earlier call would have preserved them too).
C6_TableUnchanged ==
    Returned(1) => PROGRESSIONS = InitialPROGRESSIONS

\* C7: given the arguments, the template choice and the PRNG stream, the
\* result is the one the same call returns as the first call of the process,
\* whatever calls were made before it.  The call consumed gp[1].draws and
\* nothing more, so its result is the same for every stream that starts with
\* them; SoloResults collects the first call's results over those streams.
\* (Stated for lengths >= 0, the arguments generate_composition can pass.)
C7_HistoryIndependent ==
    (Returned(1) /\ gp[1].length >= 0) =>
        SoloResults(Pristine(1), gp[1].length, gp[1].draws) = {gp[1].result}

\* C8: for every style name and every requested length L >= 0 the call
\* returns exactly L entries, whatever calls came before it.
C8_ExactLength ==
    (Returned(1) /\ gp[1].length >= 0) => Len(gp[1].result) = gp[1].length

\* C8 witness: a second call that picked a template an earlier call had
\* lengthened in place, and returned fewer entries than the list now holds.
C8_Witness ==
    /\ Returned(1) /\ ncalls = 2
    /\ gp[1].start # Pristine(1)
    /\ gp[1].length >= 0
    /\ gp[1].length < Len(gp[1].start)
    /\ Len(gp[1].result) = gp[1].length

\* C9: for every style and every requested length <= 0 the call returns a
\* sequence of at most one element.
C9_NonPositiveLengthShort ==
    (Returned(1) /\ gp[1].length <= 0) => Len(gp[1].result) <= 1

\* C10: under any interleaving of two calls, each returns the result it
\* returns when run alone, from the list as it was when the call began, on
\* the same PRNG stream (every stream that starts with the draws it consumed).
\* (Stated for lengths >= 0.)
C10_InterleavingSafe ==
    \A c \in Callers :
        (Returned(c) /\ gp[c].length >= 0) =>
            SoloResults(gp[c].start, gp[c].length, gp[c].draws) = {gp[c].result}

\* The list a call has after the extension steps `ds`, begun on `prog`
RECURSIVE Replay(_, _)
Replay(prog, ds) ==
    IF ds = <<>> THEN prog ELSE Replay(ExtendOnce(prog, Head(ds)), Tail(ds))

\* C26: every entry of every progression returned, after any sequence of
\* calls with any styles and lengths, is an integer in 0..6.
C26_DegreesInRange ==
    \A c \in Callers :
        Returned(c) =>
            \A i \in 1 .. Len(gp[c].result) : gp[c].result[i] \in 0 .. 6

\* C26 witness: the second call of a behaviour returned a progression whose
\* last entries were appended by extension steps.
C26_Witness ==
    /\ Returned(1) /\ ncalls = 2
    /\ gp[1].draws # <<>>
    /\ Len(gp[1].result) > Len(Pristine(1))

\* C27: a progression of length L >= 0 returned by any call of a sequence
\* starts with the first min(L, n) entries of the original template chosen
\* (n its original length), and its later entries are those the extension
\* steps of this call appended.
C27_OwnExtensions ==
    (Returned(1) /\ gp[1].length >= 0) =>
        LET n == Len(Pristine(1))
            m == Min(gp[1].length, n)
        IN  /\ SubSeq(gp[1].result, 1, m) = SubSeq(Pristine(1), 1, m)
            /\ gp[1].length > n =>
                  gp[1].result =
                      PySliceTo(Replay(Pristine(1), gp[1].draws), gp[1].length)

-----------------------------------------------------------------------------
(* Claims about generate_composition *)

\* The call has passed lines 391-457 (or was ended by them).
Analysed == pc \notin {"Idle", "Analyze"}

\* d * sample_rate is not a whole number of samples
Fractional(d, sr) == (d.ticks * sr) % TicksPerSecond # 0

\* C1: a call ends with an error only when its duration is not a number:
\* every int or float duration, with any description, style and sample
\* rate, returns a buffer.
C1_OnlyNonNumericRaises ==
    pc = "Raised" => ~IsNumber(args.duration)

\* C2: a call whose duration is neither int nor float ends in a TypeError,
\* raised before any random draw, before the buffer is allocated and with
\* the class-level table as it was when the call began.
C2_TypeErrorFirst ==
    (Analysed /\ args.duration.kind = "other") =>
        /\ pc = "Raised" /\ err = "TypeError" /\ raised_in = "Analyze"
        /\ ~drew
        /\ ~allocated
        /\ PROGRESSIONS = entry

\* C2 witness: a call with a non-numeric duration that has been ended.
C2_Witness ==
    /\ pc = "Raised" /\ err = "TypeError"
    /\ args.duration = NotANumber

\* C3: the duration the call works with is 1.0 s for every number <= 0
\* (and the buffer then has the samples of one second), 600 s for every
\* number > 600, and the argument itself for 0 < d <= 600.
C3_Clamping ==
    (Analysed /\ args.duration.kind = "num") =>
        /\ args.duration.ticks <= 0 => duration = Num(Seconds(1))
        /\ args.duration.ticks > Seconds(600) => duration = Num(Seconds(600))
        /\ (0 < args.duration.ticks /\ args.duration.ticks <= Seconds(600)) =>
              duration = args.duration
        /\ (args.duration.ticks <= 0 /\ allocated) =>
              Len(composition) = args.sample_rate

\* C3 witness: a call with a negative duration that returned its buffer.
C3_Witness ==
    /\ pc = "Done"
    /\ args.duration.kind = "num" /\ args.duration.ticks < 0
    /\ Len(composition) = args.sample_rate

C5_SilentBufferReturned ==
    (allocated /\ Silent(composition)) =>
        /\ ~(pc = "Raised" /\ raised_in = "Normalize")
        /\ pc = "Done" => ~scaled

\* The place of a phase in the order of the code
PhaseRank(phase) ==
    CASE phase = "Idle" -> 0
      [] phase = "Analyze" -> 1
      [] phase = "ScaleAndRhythm" -> 2
      [] phase = "Melody" -> 3
      [] phase = "Harmony" -> 4
      [] phase = "Render" -> 5
      [] phase = "Effects" -> 6
      [] phase = "Normalize" -> 7
      [] phase = "Done" -> 8
      [] OTHER -> 9

\* The call is one the model follows past Analyze.
Followed ==
    LET d == ClampDuration(args.duration)
    IN  d.kind = "num" => d.ticks <= Seconds(MaxRunSeconds)

\* The description is None, not a string, empty or only whitespace.
Sanitised(description) == description.kind # "str" \/ description.blank

\* The call got as far as generate_melody returning.
MelodyRan ==
    \/ pc \in {"Harmony", "Render", "Effects", "Normalize", "Done"}
    \/ pc = "Raised" /\ raised_in \in {"Effects", "Normalize"}

\* C11: a call with a numeric duration goes through the phases one after
\* the other in the order of the code, never back, and reaches Done.
C11_PhasesToDone ==
    /\ [][(pc' # pc /\ pc' # "Raised") =>
             PhaseRank(pc') = PhaseRank(pc) + 1]_vars
    /\ [](((pc = "Analyze" /\ IsNumber(args.duration) /\ Followed))
             => <>(pc = "Done"))

\* C16: a description that is None, not a string, empty or only whitespace
\* is analysed as the default phrase is: the style, scale and time
\* signature the analysis can settle on are those of the default phrase.
C16_DefaultPhraseAnalysed ==
    (pc = "Analyze" /\ Sanitised(args.description)) =>
        AnalyzeOutcomes(args) =
            AnalyzeOutcomes([args EXCEPT !.description = Desc("str", FALSE, {})])

\* C20: a call whose melody is empty does not raise and returns a buffer
\* of the right length whose peak is 0 (so Normalize leaves it as it is).
C20_EmptyMelodySilent ==
    (MelodyRan /\ melody = <<>>) =>
        /\ pc # "Raised"
        /\ pc = "Done" =>
              /\ ~scaled
              /\ Len(composition) =
                    TotalSamples(duration.ticks, args.sample_rate)

\* ceil(a / b) for b > 0
CeilDiv(a, b) == (a + b - 1) \div b

\* The call got as far as tiling the rhythm (line 471).
Tiled ==
    \/ pc \in {"Melody", "Harmony", "Render", "Effects", "Normalize", "Done"}
    \/ pc = "Raised" /\ raised_in \in {"Effects", "Normalize"}

\* The call got as far as the end of Render (line 535).
Rendered ==
    \/ pc \in {"Effects", "Normalize", "Done"}
    \/ pc = "Raised" /\ raised_in \in {"Effects", "Normalize"}

\* The slices the melody loop and the chord loop of this call added to
MelodyWritten ==
    MelodyWrites(melody, 1, 0, args.sample_rate, Len(composition))
ChordsWritten ==
    ChordWrites(Len(progression), 0, duration.ticks, args.sample_rate,
                Len(composition), ChordSize(style))

\* C21: the tiled rhythm is the bar pattern repeated
\* ceil(duration / pattern_duration) times, then truncated.
C21_CeilRepetitions ==
    Tiled =>
        extended_pattern =
            Truncated(Repeat(rhythm_pattern,
                             CeilDiv(duration.ticks, Sum(rhythm_pattern))),
                      duration.ticks)

\* C22: the entries of the tiled and truncated rhythm sum to at least the
\* duration.
C22_RhythmCoversDuration ==
    Tiled => Sum(extended_pattern) >= duration.ticks

\* C23: every melody note is mixed in from the sample
\* int(start_time * sample_rate) on.
C23_OffsetsFollowStartTimes ==
    Rendered =>
        \A w \in 1 .. Len(MelodyWritten) :
            MelodyWritten[w].first =
                TotalSamples(melody[MelodyWritten[w].of].start_time,
                             args.sample_rate)

\* C24: Render adds only to samples inside the buffer: every slice begins
\* inside it and ends at the end of the note's or chord's audio or at the
\* end of the buffer, whichever is first; the melody loop stops at the
\* first note that begins at or past the end; the buffer after Render is
\* the zero buffer with these slices added, and it keeps its length to the
\* return.
C24_WritesInsideBuffer ==
    Rendered =>
        LET total == Len(composition)
            notes == MelodyWritten
            slices == notes \o ChordsWritten
        IN  /\ \A w \in 1 .. Len(slices) :
                  /\ 0 <= slices[w].first /\ slices[w].first < total
                  /\ slices[w].first <= slices[w].last
                  /\ slices[w].last <= total
                  /\ slices[w].last = slices[w].first + slices[w].len
                        \/ slices[w].last = total
                  /\ slices[w].last - slices[w].first <= slices[w].len
            /\ \A n \in 1 .. Len(melody) :
                  n <= Len(notes) <=>
                      IF n = 1 THEN total > 0
                      ELSE /\ n - 1 <= Len(notes)
                           /\ notes[n - 1].first + notes[n - 1].len < total
            /\ \A w \in 1 .. Len(notes) : notes[w].of = w
            /\ pc = "Effects" => composition = ApplyWrites(Zeros(total), slices)
            /\ total = TotalSamples(duration.ticks, args.sample_rate)

\* C24 witness: a returned buffer whose last melody note was cut at the end
\* of the buffer, notes after it left out.
C24_Witness ==
    /\ pc = "Done"
    /\ LET notes == MelodyWritten
       IN  /\ Len(notes) > 0 /\ Len(notes) < Len(melody)
           /\ notes[Len(notes)].last = Len(composition)
           /\ notes[Len(notes)].last - notes[Len(notes)].first
                 < notes[Len(notes)].len

\* C25: the progression rendered has max(1, floor(notes / 4)) entries, one
\* at least; each chord has the samples of duration / entries seconds; and
\* in a non-empty buffer every entry begins inside the buffer and is added.
C25_EveryChordRendered ==
    /\ (pc = "Render" \/ Rendered) =>
          /\ Len(progression) >= 1
          /\ Len(progression) = Max(1, Len(melody) \div 4)
    /\ (Rendered /\ Len(composition) > 0) =>
          LET chords == ChordsWritten
              n == Len(progression)
              samples == duration.ticks * args.sample_rate
          IN  /\ Len(chords) = n
              /\ \A i \in 1 .. Len(chords) :
                    /\ chords[i].of = i - 1
                    /\ chords[i].first < Len(composition)
                    /\ chords[i].first * n * TicksPerSecond <= (i - 1) * samples
                    /\ chords[i].len * n * TicksPerSecond <= samples
                    /\ (chords[i].len + 1) * n * TicksPerSecond > samples

\* C25 witness: a returned buffer with several chords, all added.
C25_Witness ==
    /\ pc = "Done"
    /\ Len(progression) > 1
    /\ Len(ChordsWritten) = Len(progression)

-----------------------------------------------------------------------------
(* Claims about generate_rhythm_pattern *)

\* All entries of a pattern but the last
ButLast(seq) == SubSeq(seq, 1, Len(seq) - 1)

\* ceil(beats_per_measure / 0.09375): 0.09375 s is 6 ticks
MostEntries(beats_per_measure) == (Seconds(beats_per_measure) + 5) \div 6

\* C12: for every time signature and complexity in [0, 1] the pattern
\* returned is non-empty, its entries are positive, its sum reaches the bar
\* length and the sum without the last entry does not.
C12_StopsAtBar ==
    (rp.pc = "done" /\ rp.complexity \in 0 .. 10) =>
        /\ Len(rp.result) >= 1
        /\ \A i \in 1 .. Len(rp.result) : rp.result[i] > 0
        /\ Sum(rp.result) >= Seconds(rp.time_sig[1])
        /\ Sum(ButLast(rp.result)) < Seconds(rp.time_sig[1])

\* C12 witness: a returned pattern of several entries whose last entry
\* overshoots the bar.
C12_Witness ==
    /\ rp.pc = "done" /\ rp.complexity \in 0 .. 10
    /\ Len(rp.result) > 1
    /\ Sum(rp.result) > Seconds(rp.time_sig[1])

\* C13: for every time signature and every complexity, in [0, 1] or not,
\* the loop never holds more than ceil(beats_per_measure / 0.09375) entries
\* and the call returns.
C13_TerminatesInBound ==
    /\ [](Len(rp.pattern) <= MostEntries(rp.time_sig[1]))
    /\ (rp.pc = "loop") ~> (rp.pc = "done")

\* C13 witness: a call with a complexity outside [0, 1] that returned
\* exactly that many entries.
C13_Witness ==
    /\ rp.pc = "done" /\ rp.complexity \notin 0 .. 10
    /\ Len(rp.result) = MostEntries(rp.time_sig[1])

\* The subdivisions the complexity (in tenths) selects from, in ticks
Pool(complexity) ==
    IF complexity < 3 THEN {64, 32}
    ELSE IF complexity < 7 THEN {64, 32, 16} ELSE {64, 32, 16, 8}

\* C29: every entry of a pattern is s or 0.75 * s for an s of the pool the
\* complexity selects, and with complexity 0 no entry is scaled by 0.75.
C29_EntriesFromPool ==
    \A i \in 1 .. Len(rp.pattern) :
        /\ \E s \in Pool(rp.complexity) :
              rp.pattern[i] = s \/ 4 * rp.pattern[i] = 3 * s
        /\ rp.complexity = 0 => rp.pattern[i] \in Pool(rp.complexity)

\* C29 witness: a pattern returned for complexity 0.3, the lowest with the
\* pool of three, that holds a quarter and a dotted quarter.
C29_Witness ==
    /\ rp.pc = "done" /\ rp.complexity = 3
    /\ \E i, j \in 1 .. Len(rp.result) :
          rp.result[i] = 16 /\ rp.result[j] = 12

-----------------------------------------------------------------------------
(* Claims about generate_melody *)

\* C18: the melody returned has one note per rhythm entry, in order; note k
\* has the duration of entry k, a velocity in [0.5, 1.0] and starts at the
\* sum of the entries before it, so start times never decrease.
C18_OneNotePerEntry ==
    ml.pc = "done" =>
        /\ Len(ml.result) = Len(ml.rhythm)
        /\ \A k \in 1 .. Len(ml.result) :
              /\ ml.result[k].duration = ml.rhythm[k]
              /\ ml.result[k].velocity >= 50 /\ ml.result[k].velocity <= 100
              /\ ml.result[k].start_time = Sum(SubSeq(ml.rhythm, 1, k - 1))
        /\ \A k \in 2 .. Len(ml.result) :
              ml.result[k - 1].start_time <= ml.result[k].start_time

\* C18 witness: a returned melody of MaxNotes notes, the last of which
\* starts after the first.
C18_Witness ==
    /\ ml.pc = "done"
    /\ Len(ml.result) = MaxNotes
    /\ ml.result[Len(ml.result)].start_time > ml.result[1].start_time

\* C19: the current index is always inside the scale; a move past an end
\* leaves it at that end; every note's frequency is an element of the
\* scale, the single pitch 440 when the scale given is empty.
C19_IndexClamped ==
    ml.pc # "idle" =>
        /\ ml.index \in 0 .. Len(ml.scale_freqs) - 1
        /\ ml.prev + ml.move > Len(ml.scale_freqs) - 1 =>
              ml.index = Len(ml.scale_freqs) - 1
        /\ ml.prev + ml.move < 0 => ml.index = 0
        /\ \A k \in 1 .. Len(ml.notes) :
              /\ \E i \in 1 .. Len(ml.scale_freqs) :
                    ml.notes[k].frequency = ml.scale_freqs[i]
              /\ ml.given = <<>> => ml.notes[k].frequency = 440
              /\ ml.given # <<>> =>
                    \E i \in 1 .. Len(ml.given) :
                       ml.notes[k].frequency = ml.given[i]

\* C19 witness: a leap past the top of a scale of several pitches, the index
\* left at the top.
C19_Witness ==
    /\ ml.pc = "loop" /\ Len(ml.notes) > 0
    /\ Len(ml.given) > 1
    /\ ml.prev + ml.move > Len(ml.scale_freqs)
    /\ ml.index = Len(ml.scale_freqs) - 1

-----------------------------------------------------------------------------
(* Claims about the functions without state *)

\* Every entry of the effect map is absent or has an amount <= 0.
NoEffect(effects) == \A name \in DOMAIN effects : effects[name] <= 0

\* C14: for every supported scale name, root > 0 and octave count k >= 0,
\* get_scale_frequencies returns k * |scale| frequencies, the one at place
\* j of octave o being root * 2^(o + interval j / 12), that is o * 12 +
\* interval j semitones above the root; the ladder is strictly ascending
\* (and so, the root being > 0, every frequency is positive).
C14_ScaleLadder ==
    (lib.fn = "get_scale_frequencies" /\ lib.scale_name \in DOMAIN SCALES) =>
        LET set == SCALES[lib.scale_name]
            n == Len(set)
        IN  /\ lib.root_freq > 0
            /\ Len(lib.result) = lib.octaves * n
            /\ \A o \in 0 .. lib.octaves - 1 : \A j \in 1 .. n :
                  lib.result[o * n + j] = o * 12 + set[j]
            /\ \A i \in 2 .. Len(lib.result) :
                  lib.result[i - 1] < lib.result[i]

\* C14 witness: a ladder of several octaves of a scale of fewer than seven
\* pitches.
C14_Witness ==
    /\ lib.fn = "get_scale_frequencies" /\ lib.scale_name = "pentatonic"
    /\ lib.octaves > 1
    /\ Len(lib.result) = lib.octaves * 5

\* C15: an unknown scale name gives the ladder of 'major', an unknown
\* progression style draws its template from the 'classical' row, and an
\* unknown chord type gives the major triad; none of them raises.
C15_UnknownNamesDefault ==
    /\ (lib.fn = "get_scale_frequencies" /\ lib.scale_name \notin DOMAIN SCALES)
          => lib.result = Ladder(SCALES["major"], 0, lib.octaves)
    /\ (lib.fn = "create_chord" /\ lib.chord_type \notin DOMAIN ChordIntervals)
          => /\ lib.result = Inverted(<<0, 4, 7>>, lib.inversion % 3)
             /\ lib.inversion = 0 => lib.result = <<0, 4, 7>>
    /\ \A c \in Callers :
          (gp[c].pc # "idle" /\ gp[c].arg \notin DOMAIN InitialPROGRESSIONS)
             => /\ gp[c].style = "classical"
                /\ gp[c].idx \in 1 .. Len(InitialPROGRESSIONS["classical"])

\* C15 witness: a progression call with an unknown style that returned.
C15_Witness ==
    /\ Returned(1) /\ gp[1].arg \notin DOMAIN InitialPROGRESSIONS
    /\ Len(gp[1].result) > 0

\* C17: add_effects returns a buffer as long as its input for every effect
\* map and every buffer length, and the input's samples when every effect
\* is absent or has an amount <= 0.
C17_EffectsKeepLength ==
    lib.fn = "add_effects" =>
        /\ lib.result.err = ""
        /\ Len(lib.result.buf) = Len(lib.audio)
        /\ NoEffect(lib.effects) =>
              (~lib.result.touched /\ lib.result.buf = lib.audio)

\* The least element of a non-empty sequence of numbers
Lowest(seq) ==
    CHOOSE x \in {seq[i] : i \in 1 .. Len(seq)} :
        \A i \in 1 .. Len(seq) : x <= seq[i]

\* C28: a style that is passed is used whatever the description holds;
\* with none passed the style is the first of classical, jazz, electronic,
\* ambient, rock, folk with a keyword in the description, and any of the
\* eight styles only when there is no keyword.
C28_StylePriority ==
    lib.fn = "infer_style" =>
        IF lib.style # "None" THEN lib.result = lib.style
        ELSE IF lib.text \cap {"classical", "orchestra", "symphony"} # {}
             THEN lib.result = "classical"
        ELSE IF lib.text \cap {"jazz", "swing", "bebop"} # {}
             THEN lib.result = "jazz"
        ELSE IF lib.text \cap {"electronic", "synth", "edm"} # {}
             THEN lib.result = "electronic"
        ELSE IF lib.text \cap {"ambient", "atmospheric", "drone"} # {}
             THEN lib.result = "ambient"
        ELSE IF lib.text \cap {"rock", "metal", "punk"} # {}
             THEN lib.result = "rock"
        ELSE IF lib.text \cap {"folk", "acoustic", "country"} # {}
             THEN lib.result = "folk"
        ELSE lib.result \in {"classical", "jazz", "electronic", "ambient",
                             "rock", "folk", "world", "experimental"}

\* C28 witness: no style passed, keywords of two styles in the description,
\* the earlier style inferred.
C28_Witness ==
    /\ lib.fn = "infer_style" /\ lib.style = "None"
    /\ lib.text = {"country", "synth"}
    /\ lib.result = "electronic"

\* C30: for every chord type of the table and inversion k >= 0, the chord
\* has one pitch per interval; it is the root position after k mod n steps,
\* each of which takes the first pitch, the lowest at that moment, up an
\* octave and to the end; inversions k and k + n give the same chord.
C30_Inversions ==
    (lib.fn = "create_chord" /\ lib.chord_type \in DOMAIN ChordIntervals) =>
        LET intervals == ChordIntervals[lib.chord_type]
            n == Len(intervals)
            steps == lib.inversion % n
        IN  /\ Len(lib.result) = n
            /\ lib.result = Inverted(intervals, steps)
            /\ \A m \in 0 .. steps - 1 :
                  LET before == Inverted(intervals, m)
                  IN  /\ Head(before) = Lowest(before)
                      /\ Inverted(intervals, m + 1) =
                            Tail(before) \o <<Head(before) + 12>>
            /\ create_chord(lib.chord_type, lib.inversion + n) = lib.result

\* C30 witness: an inversion of at least n asked of a chord of four
\* pitches, which leaves the chord other than in root position.
C30_Witness ==
    /\ lib.fn = "create_chord" /\ lib.chord_type = "add9"
    /\ lib.inversion >= 4
    /\ lib.result # ChordIntervals["add9"]

-----------------------------------------------------------------------------
Next ==
    \/ GC_Call
    \/ GC_Analyze
    \/ GC_ScaleAndRhythm
    \/ GC_Melody
    \/ GC_Harmony
    \/ GC_Render
    \/ GC_Effects
    \/ GC_Normalize

Spec == Init /\ [][Next]_vars

\* The call is one thread of control: the phase that can run does run.
SpecLive == Spec /\ WF_vars(Next)

=============================================================================
